---- MODULE Spec2Model ----
(***************************************************************************)
(* Weekly high/low weekday statistics (HighLowStatistics.py) and the       *)
(* single-instrument driver analyze_stock (HighLowAnalysis.py).            *)
(*                                                                         *)
(* A data frame is a sequence of rows (records).  A Python dict is a       *)
(* function whose DOMAIN is the dict's key set.  A percentage text such as *)
(* "66.67%" is the pair <<6667, "%">>: the number of hundredths followed   *)
(* by the percent sign; the float 66.67 is the integer 6667 (hundredths).  *)
(***************************************************************************)
EXTENDS Integers, Sequences, FiniteSets

(***************************************************************************)
(* Bounds of the model.                                                    *)
(***************************************************************************)
MaxBars == 3
MaxTickers == 3

(***************************************************************************)
(* Calendar arithmetic: DatetimeIndex.dayofweek, .year and                 *)
(* .isocalendar().week, computed on the proleptic Gregorian calendar.      *)
(* A date is <<year, month, day>>.                                         *)
(***************************************************************************)
IsLeap(y) == (y % 4 = 0) /\ ((y % 100 # 0) \/ (y % 400 = 0))

\* Days of year y before the first day of month m.
DaysBeforeMonth(y, m) ==
    <<0, 31, 59, 90, 120, 151, 181, 212, 243, 273, 304, 334>>[m]
    + (IF m > 2 /\ IsLeap(y) THEN 1 ELSE 0)

DaysBeforeYear(y) ==
    (y - 1) * 365 + ((y - 1) \div 4) - ((y - 1) \div 100) + ((y - 1) \div 400)

\* Day number of a date, 0001-01-01 being day 1.
Ordinal(dt) == DaysBeforeYear(dt[1]) + DaysBeforeMonth(dt[1], dt[2]) + dt[3]

\* df.index.dayofweek: Monday = 0 .. Sunday = 6.
DayOfWeek(dt) == (Ordinal(dt) + 6) % 7

\* df.index.year: the calendar year of the date.
Year(dt) == dt[1]

\* Day number of the Monday that starts ISO week 1 of year y (the week
\* holding the year's first Thursday).
IsoWeek1Monday(y) ==
    LET firstday == Ordinal(<<y, 1, 1>>)
        firstweekday == (firstday + 6) % 7
        week1monday == firstday - firstweekday
    IN  IF firstweekday > 3 THEN week1monday + 7 ELSE week1monday

\* ISO year of a date: the year whose ISO week 1..53 holds the date.
IsoYear(dt) ==
    LET today == Ordinal(dt)
    IN  IF today < IsoWeek1Monday(dt[1]) THEN dt[1] - 1
        ELSE IF today >= IsoWeek1Monday(dt[1] + 1) THEN dt[1] + 1
        ELSE dt[1]

\* df.index.isocalendar().week: ISO week number 1..53.
IsoWeek(dt) == ((Ordinal(dt) - IsoWeek1Monday(IsoYear(dt))) \div 7) + 1

(***************************************************************************)
(* The Bar Source: ticker.history(period).  The model's calendar holds     *)
(* dates around two year boundaries, a Saturday, and whole weeks.          *)
(***************************************************************************)
AllDates ==
    << <<2024, 1, 1>>,      \* Monday    ISO 2024-W01
       <<2024, 1, 2>>,      \* Tuesday   ISO 2024-W01
       <<2024, 1, 3>>,      \* Wednesday ISO 2024-W01
       <<2024, 1, 6>>,      \* Saturday  ISO 2024-W01
       <<2024, 1, 8>>,      \* Monday    ISO 2024-W02
       <<2024, 12, 30>>,    \* Monday    ISO 2025-W01
       <<2025, 1, 2>> >>    \* Thursday  ISO 2025-W01

Highs == {10, 12}
Lows == {7, 9}

Bar(dt, h, l) == [Date |-> dt, High |-> h, Low |-> l]

\* The frames of at most n bars with dates AllDates[i..], in date order.
RECURSIVE FramesFrom(_, _)
FramesFrom(i, n) ==
    IF i > Len(AllDates) \/ n = 0 THEN {<< >>}
    ELSE FramesFrom(i + 1, n)
         \cup { <<Bar(AllDates[i], h, l)>> \o rest :
                  h \in Highs, l \in Lows, rest \in FramesFrom(i + 1, n - 1) }

\* One week with a tie for the high: Monday 10/8, Tuesday 12/9,
\* Wednesday 12/7.
ScenarioFrame ==
    <<Bar(<<2024, 1, 1>>, 10, 8), Bar(<<2024, 1, 2>>, 12, 9),
      Bar(<<2024, 1, 3>>, 12, 7)>>

Frames == FramesFrom(1, MaxBars) \cup {ScenarioFrame}

\* The frames the Bar Source answers with in a comparison: no rows; one
\* bar; the tie week; a Saturday high; three Mondays in two week buckets;
\* three bars in three week buckets.
CmpFrames ==
    { << >>,
      <<Bar(<<2024, 1, 1>>, 10, 7)>>,
      ScenarioFrame,
      <<Bar(<<2024, 1, 2>>, 10, 9), Bar(<<2024, 1, 6>>, 12, 7)>>,
      <<Bar(<<2024, 1, 1>>, 12, 7), Bar(<<2024, 1, 8>>, 10, 9),
        Bar(<<2024, 12, 30>>, 12, 9)>>,
      <<Bar(<<2024, 1, 1>>, 10, 7), Bar(<<2024, 1, 8>>, 10, 9),
        Bar(<<2025, 1, 2>>, 12, 9)>> }

\* What one call of ticker.history can do: raise, or return a frame
\* (which may have no rows).
\* An empty frame comes with a DatetimeIndex or with a plain index,
\* depending on the provider; a frame with rows always has a DatetimeIndex.
Response(raises, rows, dtindex) ==
    [raises |-> raises, rows |-> rows, dtindex |-> dtindex]

ResponsesOf(frames) ==
    {Response(TRUE, << >>, TRUE), Response(FALSE, << >>, FALSE)}
    \cup {Response(FALSE, f, TRUE) : f \in frames}

Responses == ResponsesOf(Frames)
CmpResponses == ResponsesOf(CmpFrames)

(***************************************************************************)
(* get_weekly_ohlc_analysis                                                *)
(***************************************************************************)
\* df['WeekID']: the text Year + '-' + WeekNumber.  Two such texts are
\* equal exactly when both numbers are, so the text is the pair.
WeekID(dt) == <<Year(dt), IsoWeek(dt)>>

\* AddWeekInfo with the Saturday/Sunday rows dropped from the frame.
RECURSIVE AddWeekInfoWeekdaysOnly(_)
AddWeekInfoWeekdaysOnly(rows) ==
    IF rows = << >> THEN << >>
    ELSE LET row == Head(rows)
         IN  (IF DayOfWeek(row.Date) >= 5 THEN << >>
              ELSE <<[Date |-> row.Date, High |-> row.High, Low |-> row.Low,
                      Weekday |-> DayOfWeek(row.Date),
                      WeekID |-> WeekID(row.Date)]>>)
             \o AddWeekInfoWeekdaysOnly(Tail(rows))

\* The columns added to the fetched frame (Weekday, WeekNumber, Year, WeekID).
RECURSIVE AddWeekInfo(_)
AddWeekInfo(rows) ==
    IF rows = << >> THEN << >>
    ELSE LET row == Head(rows)
         IN  <<[Date |-> row.Date, High |-> row.High, Low |-> row.Low,
                Weekday |-> DayOfWeek(row.Date),
                WeekID |-> WeekID(row.Date)]>> \o AddWeekInfo(Tail(rows))

RECURSIVE SetMax(_)
SetMax(S) ==
    LET x == CHOOSE x \in S : TRUE
    IN  IF S = {x} THEN x
        ELSE LET m == SetMax(S \ {x}) IN IF x > m THEN x ELSE m

RECURSIVE SetMin(_)
SetMin(S) ==
    LET x == CHOOSE x \in S : TRUE
    IN  IF S = {x} THEN x
        ELSE LET m == SetMin(S \ {x}) IN IF x < m THEN x ELSE m

\* WeeklyStats with the two aggregations swapped ('High': 'min', 'Low': 'max').
WeeklyStatsSwapped(df) ==
    [w \in {df[i].WeekID : i \in 1..Len(df)} |->
        [High |-> SetMin({df[i].High : i \in {j \in 1..Len(df) : df[j].WeekID = w}}),
         Low  |-> SetMax({df[i].Low  : i \in {j \in 1..Len(df) : df[j].WeekID = w}})]]

\* df.groupby('WeekID').agg({'High': 'max', 'Low': 'min'}): one row per
\* distinct WeekID, as a function of the WeekID.
WeeklyStats(df) ==
    [w \in {df[i].WeekID : i \in 1..Len(df)} |->
        [High |-> SetMax({df[i].High : i \in {j \in 1..Len(df) : df[j].WeekID = w}}),
         Low  |-> SetMin({df[i].Low  : i \in {j \in 1..Len(df) : df[j].WeekID = w}})]]

\* df.merge(weekly_stats, on='WeekID', suffixes=('', '_week')).
RECURSIVE Merge(_, _)
Merge(df, weekly_stats) ==
    IF df = << >> THEN << >>
    ELSE LET row == Head(df)
         IN  <<[Date |-> row.Date, High |-> row.High, Low |-> row.Low,
                Weekday |-> row.Weekday, WeekID |-> row.WeekID,
                High_week |-> weekly_stats[row.WeekID].High,
                Low_week |-> weekly_stats[row.WeekID].Low]>>
             \o Merge(Tail(df), weekly_stats)

\* df[mask]['Weekday'].value_counts().to_dict(), mask given as a row set.
ValueCounts(df, mask) ==
    [d \in {df[i].Weekday : i \in mask} |->
        Cardinality({i \in mask : df[i].Weekday = d})]

\* dict.update
Update(dict, other) ==
    [key \in (DOMAIN dict) \cup (DOMAIN other) |->
        IF key \in DOMAIN other THEN other[key] ELSE dict[key]]

ZeroDict == [i \in 0..4 |-> 0]

\* The merged frame of line 35 and the dictionary of lines 39-52.
MergedFrame(rows) ==
    LET df == AddWeekInfo(rows) IN Merge(df, WeeklyStats(df))

TotalWeeks(rows) == Cardinality(DOMAIN WeeklyStats(AddWeekInfo(rows)))

WeekdayStats(rows) ==
    LET df == MergedFrame(rows)
        all == 1..Len(df)
        high_mask == {i \in all : df[i].High = df[i].High_week}
        low_mask == {i \in all : df[i].Low = df[i].Low_week}
    IN  [high_freq |-> Update(ZeroDict, ValueCounts(df, high_mask)),
         low_freq |-> Update(ZeroDict, ValueCounts(df, low_mask)),
         total_weeks |-> TotalWeeks(rows),
         weekday_distribution |-> Update(ZeroDict, ValueCounts(df, all))]

\* The outcome of a call: a returned value or a raised exception.
Ok(v) == [ok |-> TRUE, value |-> v]
Exc(e) == [ok |-> FALSE, exc |-> e]

\* get_weekly_ohlc_analysis on what the Bar Source answers.  Nothing in the
\* function tests for an empty frame: with a DatetimeIndex the empty frame
\* goes through every step and total_weeks is 0.
GetWeeklyOhlcAnalysisOf(r) ==
    IF r.raises THEN Exc("SourceError")
    ELSE IF ~r.dtindex THEN Exc("AttributeError")
    ELSE Ok(WeekdayStats(r.rows))

(***************************************************************************)
(* format_weekday_stats                                                    *)
(***************************************************************************)
weekdays == <<"Monday", "Tuesday", "Wednesday", "Thursday", "Friday">>

\* f"{(num / den) * 100:.2f}%": the percentage rounded to hundredths.
\* The quotient num*10000/den is never half-way between two integers when
\* den is not a multiple of 64, so rounding half up is the float's rounding.
Round2(num, den) == (2 * num * 10000 + den) \div (2 * den)
\* Fmt2 with the percentage capped at 100.00.
Fmt2Capped(num, den) ==
    <<(IF Round2(num, den) > 10000 THEN 10000 ELSE Round2(num, den)), "%">>

Fmt2(num, den) == <<Round2(num, den), "%">>

\* WeekdayRow with extreme_pct taken over total_weeks instead of
\* total_weeks * 2.
WeekdayRowOverWeeks(stats, day) ==
    LET total_weeks == stats.total_weeks
        high_freq == stats.high_freq[day]
        low_freq == stats.low_freq[day]
        extreme_points == high_freq + low_freq
    IN  [Weekday |-> <<weekdays[day + 1]>>,
         High_Frequency |-> high_freq,
         High_Percentage |-> Fmt2(high_freq, total_weeks),
         Low_Frequency |-> low_freq,
         Low_Percentage |-> Fmt2(low_freq, total_weeks),
         Extreme_Points |-> extreme_points,
         Extreme_Percentage |-> Fmt2(extreme_points, total_weeks),
         Total_Occurrences |-> stats.weekday_distribution[day],
         Weeks_Analyzed |-> total_weeks]

\* One weekday row, day in 0..4.
WeekdayRow(stats, day) ==
    LET total_weeks == stats.total_weeks
        high_freq == stats.high_freq[day]
        low_freq == stats.low_freq[day]
        extreme_points == high_freq + low_freq
    IN  [Weekday |-> <<weekdays[day + 1]>>,
         High_Frequency |-> high_freq,
         High_Percentage |-> Fmt2(high_freq, total_weeks),
         Low_Frequency |-> low_freq,
         Low_Percentage |-> Fmt2(low_freq, total_weeks),
         Extreme_Points |-> extreme_points,
         Extreme_Percentage |-> Fmt2(extreme_points, total_weeks * 2),
         Total_Occurrences |-> stats.weekday_distribution[day],
         Weeks_Analyzed |-> total_weeks]

RECURSIVE ColumnSum(_, _, _)
ColumnSum(df, col, n) ==
    IF n = 0 THEN 0 ELSE ColumnSum(df, col, n - 1) + df[n][col]

SummaryRow(df, total_weeks) ==
    [Weekday |-> <<"Total", total_weeks, "weeks">>,
     High_Frequency |-> ColumnSum(df, "High_Frequency", Len(df)),
     High_Percentage |-> <<10000, "%">>,
     Low_Frequency |-> ColumnSum(df, "Low_Frequency", Len(df)),
     Low_Percentage |-> <<10000, "%">>,
     Extreme_Points |-> ColumnSum(df, "Extreme_Points", Len(df)),
     Extreme_Percentage |-> <<10000, "%">>,
     Total_Occurrences |-> ColumnSum(df, "Total_Occurrences", Len(df)),
     Weeks_Analyzed |-> total_weeks]

FormatWeekdayStatsOf(stats) ==
    IF stats.total_weeks = 0 THEN Exc("ZeroDivisionError")
    ELSE LET df == [day1 \in 1..5 |-> WeekdayRow(stats, day1 - 1)]
         IN  Ok(df \o <<SummaryRow(df, stats.total_weeks)>>)

(***************************************************************************)
(* The comparison matrix and the helpers of the three comparators          *)
(***************************************************************************)
Tickers == {"A", "B"}

RECURSIVE TickerLists(_)
TickerLists(n) ==
    IF n = 0 THEN {<< >>}
    ELSE TickerLists(n - 1)
         \cup {Append(l, t) : l \in {x \in TickerLists(n - 1) : Len(x) = n - 1},
                              t \in Tickers}

\* A float cell of the matrix: np.nan, or a number held in hundredths.
NaN == [nan |-> TRUE, hundredths |-> 0]
Float(n) == [nan |-> FALSE, hundredths |-> n]

\* text.rstrip('%') and astype(float) on a percentage text.
RStrip(text) ==
    IF Len(text) > 0 /\ text[Len(text)] = "%" THEN SubSeq(text, 1, Len(text) - 1)
    ELSE text
AsFloat(text) == Float(text[1])

\* results_df[col].iloc[:-1].str.rstrip('%').astype(float).values
RECURSIVE ColumnValues(_, _)
ColumnValues(rows, col) ==
    IF rows = << >> THEN << >>
    ELSE <<AsFloat(RStrip(Head(rows)[col]))>> \o ColumnValues(Tail(rows), col)

\* ExtractPcts with the slice .iloc[1:]: the first row dropped, the summary
\* row kept.
ExtractPctsTail(df, col) == ColumnValues(SubSeq(df, 2, Len(df)), col)

ExtractPcts(df, col) == ColumnValues(SubSeq(df, 1, Len(df) - 1), col)

NaNColumn == <<NaN, NaN, NaN, NaN, NaN>>

\* pd.DataFrame(index=weekdays)
EmptyMatrix == [index |-> weekdays, columns |-> << >>]

ColumnNames(m) == [i \in 1..Len(m.columns) |-> m.columns[i].name]

\* SetColumn that always adds a column after the last one.
SetColumnAppend(m, ticker, values) ==
    [m EXCEPT !.columns = Append(m.columns, [name |-> ticker, values |-> values])]

\* comparison_df[ticker] = values: an existing column is overwritten where
\* it stands, a new one is appended after the last column.
SetColumn(m, ticker, values) ==
    IF \E i \in 1..Len(m.columns) : m.columns[i].name = ticker
    THEN [m EXCEPT !.columns =
            [i \in 1..Len(m.columns) |->
                IF m.columns[i].name = ticker
                THEN [name |-> ticker, values |-> values]
                ELSE m.columns[i]]]
    ELSE [m EXCEPT !.columns = Append(m.columns, [name |-> ticker, values |-> values])]

\* ExceptHandler that reports the error and writes no column.
ExceptHandlerSkip(m, ticker) == m

\* The except Exception handler: the ticker's column becomes five np.nan.
ExceptHandler(m, ticker) == SetColumn(m, ticker, NaNColumn)

\* The body of the try block up to the percentage frame: Bar Source,
\* get_weekly_ohlc_analysis, format_weekday_stats.
PipelineOf(r) ==
    LET res == GetWeeklyOhlcAnalysisOf(r)
    IN  IF res.ok THEN FormatWeekdayStatsOf(res.value) ELSE res

\* The outcomes of one pipeline run in a comparison.
CmpRuns == {PipelineOf(r) : r \in CmpResponses}

PctColumn(ent) ==
    CASE ent = "compare_stocks_extremes" -> "Extreme_Percentage"
      [] ent = "compare_stocks_highs" -> "High_Percentage"
      [] ent = "compare_stocks_lows" -> "Low_Percentage"

Comparators ==
    {"compare_stocks_extremes", "compare_stocks_highs", "compare_stocks_lows"}

(***************************************************************************)
(* State                                                                   *)
(***************************************************************************)
VARIABLES
    entry,          \* the function the caller entered
    pc,             \* position of the run
    bars,           \* the frame ticker.history returned
    stats,          \* the dictionary get_weekly_ohlc_analysis returned
    results_df,     \* the frame format_weekday_stats returned
    raised,         \* the exception raised inside the run, or "none"
    outcome,        \* what the caller sees: "none", "returned", "raised"
    ticker_list,    \* the comparator's argument
    k,              \* number of tickers the comparator's loop has processed
    comparison_df   \* the matrix: a sequence of columns [name, values]

vars == <<entry, pc, bars, stats, results_df, raised, outcome,
          ticker_list, k, comparison_df>>

NoStats == [high_freq |-> ZeroDict, low_freq |-> ZeroDict, total_weeks |-> -1,
            weekday_distribution |-> ZeroDict]

(***************************************************************************)
(* Single-instrument analysis: a caller that calls                         *)
(* get_weekly_ohlc_analysis and then format_weekday_stats itself           *)
(* (entry "direct"), or analyze_stock, which wraps the two calls in        *)
(* try / except Exception.                                                 *)
(***************************************************************************)
Init ==
    /\ entry \in {"direct", "analyze_stock"}
    /\ pc = "analysis"
    /\ bars = << >>
    /\ stats = NoStats
    /\ results_df = << >>
    /\ raised = "none"
    /\ outcome = "none"
    /\ ticker_list = << >>
    /\ k = 0
    /\ comparison_df = EmptyMatrix

\* OutcomeOfRaise with no handler in analyze_stock.
OutcomeOfRaiseNoHandler(ent) == "raised"

\* What the caller of the entry point sees when an exception is raised:
\* analyze_stock catches it, prints it and returns; a direct call has no
\* handler.
OutcomeOfRaise(ent) == IF ent = "analyze_stock" THEN "returned" ELSE "raised"

GetWeeklyOhlcAnalysis ==
    /\ pc = "analysis"
    /\ \E r \in Responses :
         LET res == GetWeeklyOhlcAnalysisOf(r)
         IN  /\ bars' = r.rows
             /\ IF res.ok
                THEN /\ stats' = res.value
                     /\ pc' = "format"
                     /\ UNCHANGED <<raised, outcome>>
                ELSE /\ raised' = res.exc
                     /\ outcome' = OutcomeOfRaise(entry)
                     /\ pc' = "done"
                     /\ UNCHANGED stats
    /\ UNCHANGED <<entry, results_df, ticker_list, k, comparison_df>>

FormatWeekdayStats ==
    /\ pc = "format"
    /\ LET res == FormatWeekdayStatsOf(stats)
       IN  IF res.ok
           THEN /\ results_df' = res.value
                /\ outcome' = "returned"
                /\ UNCHANGED raised
           ELSE /\ raised' = res.exc
                /\ outcome' = OutcomeOfRaise(entry)
                /\ UNCHANGED results_df
    /\ pc' = "done"
    /\ UNCHANGED <<entry, bars, stats, ticker_list, k, comparison_df>>

Next == GetWeeklyOhlcAnalysis \/ FormatWeekdayStats

Spec == Init /\ [][Next]_vars

(***************************************************************************)
(* compare_stocks_extremes, compare_stocks_highs, compare_stocks_lows      *)
(***************************************************************************)
InitCompare ==
    /\ entry \in Comparators
    /\ pc = "loop"
    /\ bars = << >>
    /\ stats = NoStats
    /\ results_df = << >>
    /\ raised = "none"
    /\ outcome = "none"
    /\ ticker_list \in TickerLists(MaxTickers)
    /\ k = 0
    /\ comparison_df = EmptyMatrix

\* One iteration of the for loop of comparator ent: the try block and its
\* except Exception handler.  results_df and raised are those of this
\* iteration.
CompareIteration(ent) ==
    /\ entry = ent
    /\ pc = "loop"
    /\ k < Len(ticker_list)
    /\ \E run \in CmpRuns :
         LET ticker == ticker_list[k + 1]
         IN  IF run.ok
             THEN /\ results_df' = run.value
                  /\ raised' = "none"
                  /\ comparison_df' =
                        SetColumn(comparison_df, ticker,
                                  ExtractPcts(run.value, PctColumn(ent)))
             ELSE /\ results_df' = << >>
                  /\ raised' = run.exc
                  /\ comparison_df' = ExceptHandler(comparison_df, ticker)
    /\ k' = k + 1
    /\ UNCHANGED <<entry, pc, bars, stats, outcome, ticker_list>>

CompareStocksExtremes == CompareIteration("compare_stocks_extremes")
CompareStocksHighs == CompareIteration("compare_stocks_highs")
CompareStocksLows == CompareIteration("compare_stocks_lows")

\* return comparison_df
CompareReturn ==
    /\ entry \in Comparators
    /\ pc = "loop"
    /\ k = Len(ticker_list)
    /\ pc' = "done"
    /\ outcome' = "returned"
    /\ UNCHANGED <<entry, bars, stats, results_df, raised, ticker_list, k,
                   comparison_df>>

NextCompare ==
    \/ CompareStocksExtremes
    \/ CompareStocksHighs
    \/ CompareStocksLows
    \/ CompareReturn

SpecCompare == InitCompare /\ [][NextCompare]_vars

(***************************************************************************)
(* Properties of the single-instrument analysis (checked under Spec)      *)
(***************************************************************************)
\* get_weekly_ohlc_analysis has returned its dictionary for the frame bars.
Analysed == stats.total_weeks >= 0

\* format_weekday_stats has returned its frame.
Formatted == results_df # << >>

Rows == 1..Len(bars)

\* The ISO calendar week of a date.
IsoKey(dt) == <<IsoYear(dt), IsoWeek(dt)>>

SameBucket(i, j) == WeekID(bars[i].Date) = WeekID(bars[j].Date)

\* Bar i carries the highest High (lowest Low) of its week bucket.
IsBucketHigh(i) == \A j \in Rows : SameBucket(i, j) => bars[j].High <= bars[i].High
IsBucketLow(i) == \A j \in Rows : SameBucket(i, j) => bars[j].Low >= bars[i].Low

TieForHigh ==
    \E i, j \in Rows : i # j /\ SameBucket(i, j) /\ IsBucketHigh(i) /\ IsBucketHigh(j)
TieForLow ==
    \E i, j \in Rows : i # j /\ SameBucket(i, j) /\ IsBucketLow(i) /\ IsBucketLow(j)

IsWeekend(i) == DayOfWeek(bars[i].Date) >= 5
HasWeekendBar == \E i \in Rows : IsWeekend(i)

RECURSIVE SumDict(_, _)
SumDict(dict, keys) ==
    IF keys = {} THEN 0
    ELSE LET key == CHOOSE key \in keys : TRUE
         IN  dict[key] + SumDict(dict, keys \ {key})

\* C1: two bars are in the same week bucket exactly when they have the same
\* ISO (year, week); every bar's week high / low is the max High / min Low
\* of the bars of its ISO week; total_weeks is the number of distinct ISO
\* weeks of the input.
C1_BucketsAreIsoWeeks ==
    Analysed =>
        LET df == MergedFrame(bars)
        IN  /\ \A i, j \in Rows :
                 (df[i].WeekID = df[j].WeekID)
                    <=> (IsoKey(bars[i].Date) = IsoKey(bars[j].Date))
            /\ \A i \in Rows :
                 /\ \A j \in Rows :
                      IsoKey(bars[j].Date) = IsoKey(bars[i].Date)
                         => /\ bars[j].High <= df[i].High_week
                            /\ bars[j].Low >= df[i].Low_week
                 /\ \E j \in Rows :
                      /\ IsoKey(bars[j].Date) = IsoKey(bars[i].Date)
                      /\ bars[j].High = df[i].High_week
                 /\ \E j \in Rows :
                      /\ IsoKey(bars[j].Date) = IsoKey(bars[i].Date)
                      /\ bars[j].Low = df[i].Low_week
            /\ stats.total_weeks
                 = Cardinality({IsoKey(bars[i].Date) : i \in Rows})

\* C2 as stated: for a non-empty frame the high_freq (low_freq) counters of
\* the weekdays 0..4 add up to at least total_weeks, and to exactly
\* total_weeks iff no week bucket has a tie for its high (low), weekend
\* bars included.
C2_TrackedSumsCoverWeeks ==
    (Analysed /\ bars # << >>) =>
        /\ SumDict(stats.high_freq, 0..4) >= stats.total_weeks
        /\ SumDict(stats.low_freq, 0..4) >= stats.total_weeks
        /\ (SumDict(stats.high_freq, 0..4) = stats.total_weeks) <=> ~TieForHigh
        /\ (SumDict(stats.low_freq, 0..4) = stats.total_weeks) <=> ~TieForLow

\* C2 amended: the counters of ALL keys of high_freq (low_freq), the keys 5
\* and 6 that weekend bars add included, add up to at least total_weeks, with
\* equality iff no week bucket has a tie; over the weekdays 0..4 alone this
\* holds for the frames without a Saturday/Sunday bar.
C2_AllKeySumsCoverWeeks ==
    (Analysed /\ bars # << >>) =>
        /\ SumDict(stats.high_freq, DOMAIN stats.high_freq) >= stats.total_weeks
        /\ SumDict(stats.low_freq, DOMAIN stats.low_freq) >= stats.total_weeks
        /\ (SumDict(stats.high_freq, DOMAIN stats.high_freq) = stats.total_weeks)
              <=> ~TieForHigh
        /\ (SumDict(stats.low_freq, DOMAIN stats.low_freq) = stats.total_weeks)
              <=> ~TieForLow
        /\ ~HasWeekendBar =>
              /\ DOMAIN stats.high_freq = 0..4
              /\ DOMAIN stats.low_freq = 0..4

\* A Saturday bar alone carries its bucket's high: the weekdays 0..4 get
\* fewer high counts than there are weeks.
C2_Witness ==
    /\ Analysed
    /\ HasWeekendBar
    /\ ~TieForHigh
    /\ SumDict(stats.high_freq, 0..4) < stats.total_weeks
    /\ SumDict(stats.high_freq, DOMAIN stats.high_freq) = stats.total_weeks

\* C4: an empty series is detected before any percentage: the analyzer never
\* returns statistics with total_weeks = 0 and no division by zero is
\* attempted.
C4_EmptySeriesDetected ==
    /\ Analysed => stats.total_weeks # 0
    /\ raised # "ZeroDivisionError"

\* C5 as stated: every error raised inside a single-instrument analysis
\* reaches the caller as an error.
C5_ErrorsSurface == (raised # "none") => (outcome = "raised")

\* C5 amended: a direct call of get_weekly_ohlc_analysis /
\* format_weekday_stats surfaces every error; analyze_stock catches every
\* error, reports it and returns normally.
C5_OnlyDirectCallsSurface ==
    /\ (entry = "direct" /\ raised # "none") => outcome = "raised"
    /\ (entry = "direct" /\ outcome = "raised") => raised # "none"
    /\ (entry = "analyze_stock" /\ pc = "done") => outcome = "returned"

C5_Witness ==
    /\ entry = "analyze_stock"
    /\ raised = "SourceError"
    /\ pc = "done"
    /\ outcome = "returned"

\* The number of bars on weekday d, and of those that carry their bucket's
\* high (low).
BarsOn(d) == {i \in Rows : DayOfWeek(bars[i].Date) = d}
HighDaysOn(d) == {i \in BarsOn(d) : IsBucketHigh(i)}
LowDaysOn(d) == {i \in BarsOn(d) : IsBucketLow(i)}

\* C6: total_occurrences[d], d in 0..4, is the number of bars on weekday d
\* (so the five add up to the number of Monday-Friday bars and each is at
\* most the number of bars); a weekend bar adds to none of the 0..4 counters
\* but is a member of its bucket: a weekday bar counts as a high (low) day
\* only if no bar of its bucket, weekend bars included, is higher (lower).
C6_WeekdayCountersAndWeekendBars ==
    /\ Analysed =>
          /\ \A d \in 0..4 :
                /\ stats.weekday_distribution[d] = Cardinality(BarsOn(d))
                /\ stats.weekday_distribution[d] <= Len(bars)
                /\ stats.high_freq[d] = Cardinality(HighDaysOn(d))
                /\ stats.low_freq[d] = Cardinality(LowDaysOn(d))
          /\ SumDict(stats.weekday_distribution, 0..4)
                = Cardinality({i \in Rows : ~IsWeekend(i)})
    /\ Formatted =>
          /\ \A d \in 0..4 :
                results_df[d + 1].Total_Occurrences = Cardinality(BarsOn(d))
          /\ results_df[6].Total_Occurrences
                = Cardinality({i \in Rows : ~IsWeekend(i)})

\* A Saturday bar is the only high of a bucket that also holds a weekday bar.
C6_Witness ==
    /\ Formatted
    /\ \E i, j \in Rows :
          /\ IsWeekend(i) /\ ~IsWeekend(j) /\ SameBucket(i, j)
          /\ bars[i].High > bars[j].High
          /\ stats.high_freq[DayOfWeek(bars[j].Date)] = 0
    /\ SumDict(stats.weekday_distribution, 0..4) = Len(bars) - 1

Shows(p, num, den) ==
    /\ Len(p) = 2
    /\ p[2] = "%"
    /\ 2 * (p[1] * den - 10000 * num) <= den
    /\ 2 * (10000 * num - p[1] * den) <= den

\* C8: format_weekday_stats emits the rows Monday..Friday and a summary
\* row; each weekday row holds the frequencies, their sum and the three
\* percentages of its weekday; the summary row holds the column sums and
\* the label 100.00% three times.  The tie week Mon 10/8, Tue 12/9,
\* Wed 12/7 gives high_freq[Tue] = high_freq[Wed] = low_freq[Wed] = 1,
\* total_weeks = 1, high_pct[Tue] = high_pct[Wed] = extreme_pct[Wed] = 100.00.
C8_FormattedRows ==
    Formatted =>
        LET tw == stats.total_weeks
        IN  /\ tw >= 1
            /\ Len(results_df) = 6
            /\ \A d \in 0..4 :
                  LET row == results_df[d + 1]
                  IN  /\ row.Weekday = <<weekdays[d + 1]>>
                      /\ row.High_Frequency = stats.high_freq[d]
                      /\ row.Low_Frequency = stats.low_freq[d]
                      /\ row.Extreme_Points = stats.high_freq[d] + stats.low_freq[d]
                      /\ Shows(row.High_Percentage, stats.high_freq[d], tw)
                      /\ Shows(row.Low_Percentage, stats.low_freq[d], tw)
                      /\ Shows(row.Extreme_Percentage, row.Extreme_Points, tw * 2)
                      /\ row.Weeks_Analyzed = tw
            /\ results_df[6].Weekday = <<"Total", tw, "weeks">>
            /\ results_df[6].High_Frequency = SumDict(stats.high_freq, 0..4)
            /\ results_df[6].Low_Frequency = SumDict(stats.low_freq, 0..4)
            /\ results_df[6].Extreme_Points
                  = SumDict(stats.high_freq, 0..4) + SumDict(stats.low_freq, 0..4)
            /\ results_df[6].High_Percentage = <<10000, "%">>
            /\ results_df[6].Low_Percentage = <<10000, "%">>
            /\ results_df[6].Extreme_Percentage = <<10000, "%">>
            /\ bars = ScenarioFrame =>
                  /\ tw = 1
                  /\ stats.high_freq[0] = 0
                  /\ stats.high_freq[1] = 1
                  /\ stats.high_freq[2] = 1
                  /\ stats.low_freq[2] = 1
                  /\ results_df[2].High_Percentage = <<10000, "%">>
                  /\ results_df[3].High_Percentage = <<10000, "%">>
                  /\ results_df[3].Extreme_Percentage = <<10000, "%">>

C8_Witness ==
    /\ Formatted
    /\ bars = ScenarioFrame
    /\ results_df[3].Extreme_Points = 2

(***************************************************************************)
(* Properties of the comparators (checked under SpecCompare)               *)
(***************************************************************************)
\* The values of the column named t (the first such column).
ColumnOf(m, t) ==
    m.columns[CHOOSE i \in 1..Len(m.columns) : m.columns[i].name = t].values

HasColumn(m, t) == \E i \in 1..Len(m.columns) : m.columns[i].name = t

IsNumericColumn(values) ==
    /\ Len(values) = 5
    /\ \A d \in 1..5 : ~values[d].nan

\* The five cells the comparator must take from the frame of one run: the
\* ticker's own weekday rows of the requested percentage column.
OwnWeekdayCells(df, col) == [d \in 1..5 |-> Float(df[d][col][1])]

\* The ids of a ticker list in the order of their first occurrence.
RECURSIVE FirstOccurrences(_)
FirstOccurrences(l) ==
    IF l = << >> THEN << >>
    ELSE LET front == FirstOccurrences(SubSeq(l, 1, Len(l) - 1))
             t == l[Len(l)]
         IN  IF \E i \in 1..Len(front) : front[i] = t THEN front
             ELSE Append(front, t)

\* C3: no exception escapes a comparator; the iteration of a failing ticker
\* leaves five missing-value markers in that ticker's column, the iteration
\* of a succeeding ticker five numbers, and neither changes the column of
\* another ticker; the matrix is returned once every ticker has been
\* processed.
C3_FailuresAreIsolated ==
    [][ /\ outcome' # "raised"
        /\ (outcome' = "returned") => (k' = Len(ticker_list))
        /\ (k' = k + 1) =>
              LET t == ticker_list[k + 1]
              IN  /\ HasColumn(comparison_df', t)
                  /\ (raised' # "none") => (ColumnOf(comparison_df', t) = NaNColumn)
                  /\ (raised' = "none") => IsNumericColumn(ColumnOf(comparison_df', t))
                  /\ \A i \in 1..Len(comparison_df.columns) :
                        comparison_df.columns[i].name # t
                           => comparison_df'.columns[i] = comparison_df.columns[i]
      ]_vars

\* The matrix is returned with a numeric column written first and the
\* missing-value column of a later, failing ticker.
C3_Witness ==
    /\ pc = "done"
    /\ outcome = "returned"
    /\ raised # "none"
    /\ Len(comparison_df.columns) = 2
    /\ IsNumericColumn(comparison_df.columns[1].values)
    /\ comparison_df.columns[2].values = NaNColumn

\* The cells of the last processed ticker come from its own run.
LastRunCells ==
    (k >= 1) =>
        LET t == ticker_list[k]
        IN  /\ HasColumn(comparison_df, t)
            /\ ColumnOf(comparison_df, t)
                 = IF raised = "none"
                   THEN OwnWeekdayCells(results_df, PctColumn(entry))
                   ELSE NaNColumn

\* C9 as stated: after the k-th ticker the rows are Monday..Friday, the
\* columns are exactly the first k requested tickers in input order, and the
\* cells of the k-th ticker are its own weekday rows of the requested
\* percentage column.
C9_ColumnsAreFirstTickers ==
    /\ comparison_df.index = weekdays
    /\ ColumnNames(comparison_df) = SubSeq(ticker_list, 1, k)
    /\ LastRunCells
    /\ (pc = "done") => (k = Len(ticker_list))

\* C9 amended: after the k-th ticker the rows are Monday..Friday, the
\* columns are the distinct ids among the first k requested tickers in the
\* order of their first occurrence (the first k tickers when no id repeats),
\* and the cells of the k-th ticker are its own weekday rows of the
\* requested percentage column.
C9_ColumnsAreFirstOccurrences ==
    /\ comparison_df.index = weekdays
    /\ ColumnNames(comparison_df) = FirstOccurrences(SubSeq(ticker_list, 1, k))
    /\ LastRunCells
    /\ (pc = "done") => (k = Len(ticker_list))

C9_Witness ==
    /\ pc = "done"
    /\ ticker_list = <<"B", "A", "B">>
    /\ ColumnNames(comparison_df) = <<"B", "A">>
    /\ raised = "none"
    /\ results_df[1].Low_Percentage = <<6667, "%">>
    /\ ColumnOf(comparison_df, "B")[1] = Float(6667)

\* C10: a repeated id keeps a single column, at the place of its first
\* occurrence, holding the outcome of the occurrence processed last; the
\* number of columns is the number of distinct ids processed.
C10_RepeatedIdKeepsOneColumn ==
    [][ (k' = k + 1) =>
          LET t == ticker_list[k + 1]
              names == ColumnNames(comparison_df)
              names2 == ColumnNames(comparison_df')
          IN  /\ Len(names2) = Cardinality({ticker_list[i] : i \in 1..(k + 1)})
              /\ Cardinality({i \in 1..Len(names2) : names2[i] = t}) = 1
              /\ IF HasColumn(comparison_df, t)
                 THEN names2 = names
                 ELSE names2 = Append(names, t)
              /\ ColumnOf(comparison_df', t)
                   = IF raised' = "none"
                     THEN OwnWeekdayCells(results_df', PctColumn(entry))
                     ELSE NaNColumn
              /\ \A i \in 1..Len(names) :
                    names[i] # t => comparison_df'.columns[i] = comparison_df.columns[i]
      ]_vars

\* The third ticker repeats the first and fails: two columns, the first one
\* now holding missing-value markers.
C10_Witness ==
    /\ k = 3
    /\ ticker_list = <<"A", "B", "A">>
    /\ ColumnNames(comparison_df) = <<"A", "B">>
    /\ raised = "ZeroDivisionError"
    /\ comparison_df.columns[1].values = NaNColumn
    /\ IsNumericColumn(comparison_df.columns[2].values)

====
